---- MODULE Spec2Model ----
(***************************************************************************)
(* A model of the pegen parser generator (src/pegen/parser_generator.py,   *)
(* src/pegen/c_generator.py).                                              *)
(*                                                                         *)
(*   SpecLR   compute_left_recursives over every first-set graph on a few  *)
(*            rule names.                                                  *)
(*   SpecGen  one generation pass (ParserGenerator.__init__, collect_todo, *)
(*            CParserGenerator.generate) over a family of grammars, run    *)
(*            twice over the same grammar.                                 *)
(*   SpecRun  the functions that visit_Rule / visit_Alt emit, executed on  *)
(*            a token stream.                                              *)
(*                                                                         *)
(* Names (rule names, variable names) are sequences of string chunks whose *)
(* concatenation is the Python string: <<"a", "_var">> is "a_var".         *)
(***************************************************************************)
EXTENDS Integers, Sequences, FiniteSets, TLC

VARIABLES
    \* ---- analyses (parser_generator.py) ----
    graph,           \* first-set graph: rule name -> set of rule names
    lr_pc,           \* position inside ParserGenerator.__init__
    sccs,            \* SCCs compute_left_recursives has still to handle
    scc,             \* the SCC being handled
    leaders,         \* its leader candidates
    starts,          \* its members `for start in scc` has still to visit
    left_recursive,  \* names of the rules with rule.left_recursive set
    leader,          \* names of the rules with rule.leader set
    \* ---- grammar IR ----
    nodes,           \* the IR nodes, by identity (index)
    rules,           \* self.rules: the grammar's rules, in insertion order
    \* ---- the generated parser at run time ----
    entry,           \* the rule the parse starts from
    tokens,          \* the token stream
    pos,             \* p->mark
    memo,            \* the memo table: <<position, rule>> -> entry
    stack,           \* the C call stack of generated functions
    result,          \* what the entry rule returned
    run_pc,          \* "idle", "running" or "done"
    last,            \* the latest return of a generated function
    \* ---- one generation pass (ParserGenerator, CParserGenerator) ----
    given,           \* which grammar of GenGrammars the pass is over
    gen_pc,          \* position inside __init__ / generate
    todo,            \* self.todo: the work-list, name -> Rule, in insertion order
    counter,         \* self.counter
    cache,           \* self.callmakervisitor.cache: node -> (name, call)
    done_names,      \* collect_todo's done
    round,           \* the rules `for rulename in todo` has still to visit
    varname_counter, \* self._varname_counter
    out,             \* the lines printed to self.file
    error,           \* the exception that ended the pass, "" if none
    closed,          \* self.counter when collect_todo returned
    pass,            \* 1 or 2: which pass over the grammar this is
    prev_out         \* what the first pass printed

lrvars == <<graph, lr_pc, sccs, scc, leaders, starts, left_recursive, leader>>

irvars == <<nodes, rules>>

runvars == <<entry, tokens, pos, memo, stack, result, run_pc, last>>

genvars == <<given, gen_pc, todo, counter, cache, done_names, round, varname_counter,
             out, error, closed, pass, prev_out>>

vars == <<lrvars, irvars, runvars, genvars>>

\* What the analyses, and what the generated parser, leave alone.
notlr == <<irvars, runvars, genvars>>
notrun == <<lrvars, irvars, genvars>>

\* ------------------------------------------------------------------ bounds

\* Number of rule names the graphs of SpecLR range over.
NumNames == 3

\* ------------------------------------------------------------------ names

\* Every rule name the model uses, in Python's string order ('_' sorts
\* before the lower-case letters).
NameOrder ==
    << <<"_loop0_", "1">>, <<"_loop1_", "1">>, <<"a">>, <<"b">>, <<"c">>,
       <<"d">>, <<"e">>, <<"expr">>, <<"p">>, <<"start">>, <<"term">> >>

Rank(name) == CHOOSE i \in 1..Len(NameOrder) : NameOrder[i] = name

GraphNames == {NameOrder[i] : i \in 3..(2 + NumNames)}

\* -------------------------------------------------------------- grammar IR

\* A node of the IR (pegen.grammar, not in src/). kind is the class; value the
\* text of a leaf; child the wrapped node of Opt, Repeat0, Repeat1, Group and the
\* lookaheads (a Group's child is its Rhs); alts the alternatives of an Rhs, each
\* [items |-> <<[name, item]>>, action]. A NamedItem without a bind name has
\* name <<>>, an Alt without an action has action "".
Node(kind, value, child, alts) ==
    [kind |-> kind, value |-> value, child |-> child, alts |-> alts]

NameLeaf(v) == Node("NameLeaf", v, 0, <<>>)
StringLeaf(v) == Node("StringLeaf", v, 0, <<>>)
Opt(c) == Node("Opt", <<>>, c, <<>>)
Repeat0(c) == Node("Repeat0", <<>>, c, <<>>)
Repeat1(c) == Node("Repeat1", <<>>, c, <<>>)
Group(c) == Node("Group", <<>>, c, <<>>)
PositiveLookahead(c) == Node("PositiveLookahead", <<>>, c, <<>>)
NegativeLookahead(c) == Node("NegativeLookahead", <<>>, c, <<>>)
Rhs(alts) == Node("Rhs", <<>>, 0, alts)

NamedItem(name, item) == [name |-> name, item |-> item]
Alt(items) == [items |-> items, action |-> ""]
ActionAlt(items, action) == [items |-> items, action |-> action]
\* An alternative of items without bind names.
PlainAlt(ids) == Alt([i \in DOMAIN ids |-> NamedItem(<<>>, ids[i])])

Rule(name, type, rhs) == [name |-> name, type |-> type, rhs |-> rhs]

RuleNames(rs) == {rs[i].name : i \in DOMAIN rs}
RuleNamed(rs, name) == rs[CHOOSE i \in DOMAIN rs : rs[i].name = name]

\* The token classes of visit_NameLeaf.
TokenClasses ==
    {"NAME", "NUMBER", "STRING", "CUT", "CURLY_STUFF",
     "NEWLINE", "DEDENT", "INDENT", "ENDMARKER", "ASYNC", "AWAIT"}

IsTokenLeaf(n) == n.kind = "NameLeaf" /\ Len(n.value) = 1 /\ n.value[1] \in TokenClasses

\* Rule.is_loop(): the rule's name starts with the loop prefix.
is_loop(name) == name[1] \in {"_loop0_", "_loop1_"}

\* No generation pass: the generator's state while only the analyses or the
\* generated parser are looked at.
GenIdle ==
    /\ given = 0
    /\ gen_pc = "idle"
    /\ todo = <<>>
    /\ counter = 0
    /\ cache = <<>>
    /\ done_names = {}
    /\ round = {}
    /\ varname_counter = 0
    /\ out = <<>>
    /\ error = ""
    /\ closed = 0
    /\ pass = 1
    /\ prev_out = <<>>

\* ---------------------------------------- nullability, first-set graph

RECURSIVE NodeNullable(_, _, _)
\* Whether node id may match the empty input, the rules of `nullable` being the
\* nullable ones (spec 4.1).
NodeNullable(ns, id, nullable) ==
    LET n == ns[id]
    IN  CASE n.kind \in {"Opt", "Repeat0", "PositiveLookahead", "NegativeLookahead"} -> TRUE
          [] n.kind \in {"Repeat1", "Group"} -> NodeNullable(ns, n.child, nullable)
          [] n.kind = "NameLeaf" -> ~IsTokenLeaf(n) /\ n.value \in nullable
          [] n.kind = "StringLeaf" -> FALSE
          [] n.kind = "Rhs" ->
                \E a \in DOMAIN n.alts :
                    \A i \in DOMAIN n.alts[a].items :
                        NodeNullable(ns, n.alts[a].items[i].item, nullable)

RECURSIVE NullableRules(_, _, _)
\* compute_nullables(rules): the least fixed point.
NullableRules(ns, rs, nullable) ==
    LET more == {rs[i].name : i \in {j \in DOMAIN rs : NodeNullable(ns, rs[j].rhs, nullable)}}
    IN  IF more \subseteq nullable THEN nullable
        ELSE NullableRules(ns, rs, nullable \cup more)

RECURSIVE initial_names(_, _, _)
\* The rule names node id may invoke at its initial position: of an
\* alternative, its first item and the next one as long as the current one is
\* nullable.
initial_names(ns, id, nullable) ==
    LET n == ns[id]
    IN  CASE n.kind = "NameLeaf" -> IF IsTokenLeaf(n) THEN {} ELSE {n.value}
          [] n.kind = "StringLeaf" -> {}
          [] n.kind = "Rhs" ->
                UNION {UNION {initial_names(ns, n.alts[a].items[i].item, nullable) :
                                i \in {k \in DOMAIN n.alts[a].items :
                                          \A j \in 1..(k - 1) :
                                              NodeNullable(ns, n.alts[a].items[j].item, nullable)}} :
                       a \in DOMAIN n.alts}
          [] OTHER -> initial_names(ns, n.child, nullable)

\* make_first_graph(rules): an edge A -> B when A may invoke B at its initial
\* position; every name met is a vertex.
make_first_graph(ns, rs) ==
    LET nullable == NullableRules(ns, rs, {})
        edges == [name \in RuleNames(rs) |->
                    initial_names(ns, RuleNamed(rs, name).rhs, nullable)]
        vertices == UNION {edges[name] : name \in DOMAIN edges}
    IN  [v \in DOMAIN edges \cup vertices |-> IF v \in DOMAIN edges THEN edges[v] ELSE {}]

\* ------------------------------------------------- sccutils (not in src/)

RECURSIVE ReachFrom(_, _, _)
\* The vertices reachable from the set `seen` along edges of g inside `within`.
ReachFrom(g, within, seen) ==
    LET more == (UNION {g[v] : v \in seen}) \cap within
    IN  IF more \subseteq seen THEN seen ELSE ReachFrom(g, within, seen \cup more)

Reaches(g, v, w) == w \in ReachFrom(g, DOMAIN g, g[v] \cap DOMAIN g)

\* sccutils.strongly_connected_components(graph.keys(), graph): the partition of
\* the vertices into strongly-connected components.
strongly_connected_components(g) ==
    {{v} \cup {w \in DOMAIN g : Reaches(g, v, w) /\ Reaches(g, w, v)} : v \in DOMAIN g}

\* The sequences of pairwise distinct members of s.
DistinctSeqs(s) ==
    {p \in UNION {[1..k -> s] : k \in 1..Cardinality(s)} :
        \A i, j \in DOMAIN p : p[i] = p[j] => i = j}

\* sccutils.find_cycles_in_scc(graph, scc, start): the simple cycles inside the
\* SCC that leave from start, each as the sequence of its vertices.
find_cycles_in_scc(g, s, start) ==
    {p \in DistinctSeqs(s) :
        /\ p[1] = start
        /\ \A i \in 1..(Len(p) - 1) : p[i + 1] \in g[p[i]]
        /\ start \in g[p[Len(p)]]}

SetOf(p) == {p[i] : i \in DOMAIN p}

\* --------------------------------------------- compute_left_recursives

\* min(leaders) on Python strings.
MinNameWrong(names) == CHOOSE n \in names : \A m \in names : Rank(n) >= Rank(m)
MinName(names) == CHOOSE n \in names : \A m \in names : Rank(n) <= Rank(m)

\* leaders -= (scc - set(cycle))
DropOffCycle(cands, s, cycle) == cands \ (s \ SetOf(cycle))

\* graph = make_first_graph(rules); sccs = list(strongly_connected_components(..))
LR_Start ==
    /\ lr_pc = "start"
    /\ sccs' = strongly_connected_components(graph)
    /\ lr_pc' = "for_scc"
    /\ UNCHANGED <<graph, scc, leaders, starts, left_recursive, leader>>
    /\ UNCHANGED notlr

\* for scc in sccs: if len(scc) > 1: every member is left_recursive, and the
\* candidates start as the whole SCC.
LR_BigScc ==
    /\ lr_pc = "for_scc"
    /\ \E s \in sccs :
        /\ Cardinality(s) > 1
        /\ sccs' = sccs \ {s}
        /\ scc' = s
        /\ left_recursive' = left_recursive \cup s
        /\ leaders' = s
        /\ starts' = s
    /\ lr_pc' = "for_start"
    /\ UNCHANGED <<graph, leader>>
    /\ UNCHANGED notlr

\* else: the only element is left-recursive and leader iff it has a self-edge.
LR_SmallScc ==
    /\ lr_pc = "for_scc"
    /\ \E s \in sccs :
        /\ Cardinality(s) = 1
        /\ sccs' = sccs \ {s}
        /\ LET name == MinName(s)
           IN  IF name \in graph[name]
               THEN /\ left_recursive' = left_recursive \cup {name}
                    /\ leader' = leader \cup {name}
               ELSE UNCHANGED <<left_recursive, leader>>
    /\ UNCHANGED <<graph, lr_pc, scc, leaders, starts>>
    /\ UNCHANGED notlr

RECURSIVE ForCycles(_, _, _)
\* for cycle in find_cycles_in_scc(graph, scc, start): leaders -= scc - set(cycle),
\* stopping (the raise) as soon as no candidate is left.
ForCycles(cands, s, rest) ==
    IF rest = {} \/ cands = {} THEN cands
    ELSE LET c == CHOOSE x \in rest : TRUE
         IN  ForCycles(DropOffCycle(cands, s, c), s, rest \ {c})

\* One round of `for start in scc`: all the cycles that leave from start; raise
\* ValueError when they leave no candidate.
LR_Cycle ==
    /\ lr_pc = "for_start"
    /\ \E start \in starts :
        /\ starts' = starts \ {start}
        /\ leaders' = ForCycles(leaders, scc, find_cycles_in_scc(graph, scc, start))
        /\ lr_pc' = IF leaders' = {} THEN "raised" ELSE "for_start"
    /\ UNCHANGED <<graph, sccs, scc, left_recursive, leader>>
    /\ UNCHANGED notlr

\* leader = min(leaders); rules[leader].leader = True
LR_PickLeader ==
    /\ lr_pc = "for_start"
    /\ starts = {}
    /\ leader' = leader \cup {MinName(leaders)}
    /\ lr_pc' = "for_scc"
    /\ UNCHANGED <<graph, sccs, scc, leaders, starts, left_recursive>>
    /\ UNCHANGED notlr

\* return graph, sccs
LR_Return ==
    /\ lr_pc = "for_scc"
    /\ sccs = {}
    /\ lr_pc' = "returned"
    /\ UNCHANGED <<graph, sccs, scc, leaders, starts, left_recursive, leader>>
    /\ UNCHANGED notlr

LRNext ==
    \/ LR_Start
    \/ LR_BigScc
    \/ LR_SmallScc
    \/ LR_Cycle
    \/ LR_PickLeader
    \/ LR_Return

LRInitFlags ==
    /\ lr_pc = "start"
    /\ sccs = {}
    /\ scc = {}
    /\ leaders = {}
    /\ starts = {}
    /\ left_recursive = {}
    /\ leader = {}

\* Every first-set graph over GraphNames: each is the graph of the grammar whose
\* rule A has one alternative `B 'x'` per edge A -> B, and the alternative 'y'.
InitLR ==
    /\ graph \in [GraphNames -> SUBSET GraphNames]
    /\ LRInitFlags
    /\ nodes = <<>>
    /\ rules = <<>>
    /\ entry = <<>>
    /\ tokens = <<>>
    /\ pos = 0
    /\ memo = <<>>
    /\ stack = <<>>
    /\ result = [k |-> "NULL", at |-> 0, kids |-> <<>>]
    /\ run_pc = "idle"
    /\ last = <<>>
    /\ GenIdle

SpecLR == InitLR /\ [][LRNext]_vars

\* ===================================================== the generated parser

\* Length of the longest token stream.
MaxInput == 3

\* The tokens of the streams.
TokenTypes == {"NAME", "NUMBER", "+"}

\* The work-lists the generated parser is run for, after expansion: a
\* repetition is the call of its helper rule (visit_Repeat0 and visit_Repeat1
\* return the name and call that visit_NameLeaf returns for the helper's name),
\* and the helper is in the list with the body name_loop gives it.
\*   1  expr: expr '+' NAME | NAME
\*   2  a: b '+' | NAME          b: a NUMBER | NUMBER
\*   3  start: NAME ~ NUMBER | NUMBER
\*   4  start: p p               p: NAME* '+'?
\*   5  start: NUMBER+ NAME | NAME
\*   6  start: NAME?* NUMBER
RunGrammars ==
    << [nodes |-> << Rhs(<<PlainAlt(<<2, 3, 4>>), PlainAlt(<<5>>)>>),
                     NameLeaf(<<"expr">>), StringLeaf(<<"+">>), NameLeaf(<<"NAME">>),
                     NameLeaf(<<"NAME">>) >>,
        rules |-> << Rule(<<"expr">>, "", 1) >>],
       [nodes |-> << Rhs(<<PlainAlt(<<2, 3>>), PlainAlt(<<4>>)>>),
                     NameLeaf(<<"b">>), StringLeaf(<<"+">>), NameLeaf(<<"NAME">>),
                     Rhs(<<PlainAlt(<<6, 7>>), PlainAlt(<<8>>)>>),
                     NameLeaf(<<"a">>), NameLeaf(<<"NUMBER">>), NameLeaf(<<"NUMBER">>) >>,
        rules |-> << Rule(<<"a">>, "", 1), Rule(<<"b">>, "", 5) >>],
       [nodes |-> << Rhs(<<PlainAlt(<<2, 3, 4>>), PlainAlt(<<5>>)>>),
                     NameLeaf(<<"NAME">>), NameLeaf(<<"CUT">>), NameLeaf(<<"NUMBER">>),
                     NameLeaf(<<"NUMBER">>) >>,
        rules |-> << Rule(<<"start">>, "", 1) >>],
       [nodes |-> << Rhs(<<PlainAlt(<<2, 3>>)>>),
                     NameLeaf(<<"p">>), NameLeaf(<<"p">>),
                     Rhs(<<PlainAlt(<<5, 6>>)>>),
                     NameLeaf(<<"_loop0_", "1">>), Opt(7), StringLeaf(<<"+">>),
                     Rhs(<<PlainAlt(<<9>>)>>), NameLeaf(<<"NAME">>) >>,
        rules |-> << Rule(<<"start">>, "", 1), Rule(<<"p">>, "", 4),
                     Rule(<<"_loop0_", "1">>, "", 8) >>],
       [nodes |-> << Rhs(<<PlainAlt(<<2, 3>>), PlainAlt(<<4>>)>>),
                     NameLeaf(<<"_loop1_", "1">>), NameLeaf(<<"NAME">>), NameLeaf(<<"NAME">>),
                     Rhs(<<PlainAlt(<<6>>)>>), NameLeaf(<<"NUMBER">>) >>,
        rules |-> << Rule(<<"start">>, "", 1), Rule(<<"_loop1_", "1">>, "", 5) >>],
       [nodes |-> << Rhs(<<PlainAlt(<<2, 3>>)>>),
                     NameLeaf(<<"_loop0_", "1">>), NameLeaf(<<"NUMBER">>),
                     Rhs(<<PlainAlt(<<5>>)>>), Opt(6), NameLeaf(<<"NAME">>) >>,
        rules |-> << Rule(<<"start">>, "", 1), Rule(<<"_loop0_", "1">>, "", 4) >>] >>

\* ------------------------------------------------------------ values

\* A semantic value: NULL, the token at a position, the int of cut_token, a
\* CONSTRUCTOR node over its arguments, or an asdl_seq of children.
Val(k, at, kids) == [k |-> k, at |-> at, kids |-> kids]
NULL == Val("NULL", 0, <<>>)

\* ------------------------------------------------ runtime library (pegen.c)

\* is_memoized(p, type, &res): an entry for (p->mark, type).
is_memoized(m, at, type) == <<at, type>> \in DOMAIN m

\* insert_memo(p, mark, type, node) and update_memo(p, mark, type, node): the
\* entry for (mark, type) becomes node, with p->mark as the position to resume
\* from. origin and by record who wrote it: the position at which the writing
\* invocation started, and "body" or "outer".
put_memo(m, mark, type, node, at, origin, by) ==
    [k \in DOMAIN m \cup {<<mark, type>>} |->
        IF k = <<mark, type>>
        THEN [node |-> node, mark |-> at, origin |-> origin, by |-> by]
        ELSE m[k]]

\* ------------------------------------- what visit_Rule emits for a rule

\* `if node.left_recursive:` the rule gets the outer function with the
\* seed-growing loop, and its body goes to <name>_raw.
HasRaw(name) == name \in left_recursive

\* memoize = not node.leader
Memoize(name) == name \notin leader

\* is_repeat1 = node.name.startswith('_loop1')
is_repeat1(name) == name[1] = "_loop1_"

\* The statements of one iteration of the seed-growing loop before the test, in
\* the order visit_Rule prints them: update_memo, p->mark = mark, the raw call.
OuterOrderWrong == <<"o_reset", "o_update", "o_call">>
OuterOrder == <<"o_update", "o_reset", "o_call">>

\* The statement after `here` in the iteration.
OuterAfter(here) ==
    LET i == CHOOSE k \in 1..3 : OuterOrder[k] = here
    IN  OuterOrder[i + 1]

\* What CCallMakerVisitor plans for an item of the expanded work-list: a token
\* fetch (name_token, keyword_token, expect_token), cut_token, or the call of a
\* rule; under Opt, `call, 1`.
RECURSIVE CallOf(_, _)
CallOf(ns, id) ==
    LET n == ns[id]
    IN  CASE n.kind = "Opt" -> [CallOf(ns, n.child) EXCEPT !.opt = TRUE]
          [] n.kind = "StringLeaf" -> [kind |-> "token", what |-> n.value, opt |-> FALSE]
          [] IsTokenLeaf(n) /\ n.value = <<"CUT">> ->
                [kind |-> "cut", what |-> n.value, opt |-> FALSE]
          [] IsTokenLeaf(n) -> [kind |-> "token", what |-> n.value, opt |-> FALSE]
          [] OTHER -> [kind |-> "rule", what |-> n.value, opt |-> FALSE]

\* ------------------------------------------------------- the call stack

\* The frame of <rule>_rule (fn = "rule") or <rule>_raw (fn = "raw") entered at
\* position `at`. mark, resmark, res, children and cut_var are the C locals;
\* alt, item and vals say where the body is and hold the item variables; ret is
\* what the latest call returned. The rest is bookkeeping for the properties:
\* start is the position at entry, prev the raw result of the previous iteration
\* of the seed-growing loop, raws what each raw call of the seed-growing loop
\* returned and where it ended, iters the results of the completed loop iterations,
\* crossed whether the current attempt of the alternative has passed its cut,
\* committed whether an attempt that had passed its cut has failed.
NewFrame(rule, fn, at) ==
    [rule |-> rule, fn |-> fn,
     pc |-> IF fn = "rule" /\ HasRaw(rule) THEN "o_entry" ELSE "b_entry",
     mark |-> 0, resmark |-> 0, res |-> NULL, ret |-> NULL,
     alt |-> 1, item |-> 1, vals |-> <<>>, children |-> <<>>,
     cut_var |-> "uninit",
     start |-> at, prev |-> NULL, raws |-> <<>>, iters |-> <<>>, crossed |-> FALSE,
     committed |-> FALSE]

Top == stack[Len(stack)]
SetTop(f) == [stack EXCEPT ![Len(stack)] = f]
Push(f, g) == Append(SetTop(f), g)

AltsOf(name) == nodes[RuleNamed(rules, name).rhs].alts
ItemsOf(f) == AltsOf(f.rule)[f.alt].items

\* `"cut_var" in names`: an item of the alternative is named cut_var, the name
\* of the CUT token.
HasCutVar(f) ==
    \E i \in DOMAIN ItemsOf(f) : CallOf(nodes, ItemsOf(f)[i].item).kind = "cut"

\* `return v;` of the function of frame f: back in the caller, or the end of the
\* parse.
Return(f, v, via) ==
    /\ last' = [rule |-> f.rule, fn |-> f.fn, via |-> via, value |-> v,
                iters |-> f.iters, crossed |-> f.crossed, start |-> f.start,
                raws |-> f.raws]
    /\ IF Len(stack) = 1
       THEN /\ stack' = <<>>
            /\ result' = v
            /\ run_pc' = "done"
       ELSE /\ stack' = [SubSeq(stack, 1, Len(stack) - 1) EXCEPT ![Len(stack) - 1] =
                            [@ EXCEPT !.ret = v,
                                      !.pc = IF @ = "o_call" THEN "o_back" ELSE "b_back"]]
            /\ UNCHANGED <<result, run_pc>>

Running(pc) == run_pc = "running" /\ stack # <<>> /\ Top.pc = pc

\* The parse starts: the entry rule's function is called at position 0.
Run_Start ==
    /\ run_pc = "idle"
    /\ lr_pc = "returned"
    /\ run_pc' = "running"
    /\ stack' = <<NewFrame(entry, "rule", pos)>>
    /\ UNCHANGED <<entry, tokens, pos, memo, result, last>>
    /\ UNCHANGED notrun

\* ---- the outer function of a left-recursive rule (visit_Rule, 231-254)

\* res = NULL; if (is_memoized(...)) return res;
O_Hit ==
    /\ Running("o_entry")
    /\ is_memoized(memo, pos, Top.rule)
    /\ pos' = memo[<<pos, Top.rule>>].mark
    /\ Return(Top, memo[<<pos, Top.rule>>].node, "memo")
    /\ UNCHANGED <<entry, tokens, memo>>
    /\ UNCHANGED notrun

\* int mark = p->mark; int resmark = p->mark; while (1) {
O_Enter ==
    /\ Running("o_entry")
    /\ ~is_memoized(memo, pos, Top.rule)
    /\ stack' = SetTop([Top EXCEPT !.mark = pos, !.resmark = pos, !.pc = OuterOrder[1]])
    /\ UNCHANGED <<entry, tokens, pos, memo, result, run_pc, last>>
    /\ UNCHANGED notrun

\* update_memo(p, mark, <rule>_type, res)
O_Update ==
    /\ Running("o_update")
    /\ memo' = put_memo(memo, Top.mark, Top.rule, Top.res, pos, Top.start, "outer")
    /\ stack' = SetTop([Top EXCEPT !.pc = OuterAfter("o_update")])
    /\ UNCHANGED <<entry, tokens, pos, result, run_pc, last>>
    /\ UNCHANGED notrun

\* p->mark = mark;
O_Reset ==
    /\ Running("o_reset")
    /\ pos' = Top.mark
    /\ stack' = SetTop([Top EXCEPT !.pc = OuterAfter("o_reset")])
    /\ UNCHANGED <<entry, tokens, memo, result, run_pc, last>>
    /\ UNCHANGED notrun

\* void *raw = <rule>_raw(p);
O_Call ==
    /\ Running("o_call")
    /\ stack' = Push(Top, NewFrame(Top.rule, "raw", pos))
    /\ UNCHANGED <<entry, tokens, pos, memo, result, run_pc, last>>
    /\ UNCHANGED notrun

\* raw == NULL || p->mark <= resmark
StalledWrong(raw, at, best) == raw = NULL \/ at < best
Stalled(raw, at, best) == raw = NULL \/ at <= best

\* The record of the raw calls of a loop with one more call; a loop over an input
\* of MaxInput tokens that keeps only strictly longer results makes no more than
\* MaxInput + 1 calls, and the record stops growing past that.
Remember(raws, raw, at) ==
    IF Len(raws) >= MaxInput + 2 THEN raws ELSE Append(raws, [node |-> raw, end |-> at])

\* if (raw == NULL || p->mark <= resmark) break; resmark = p->mark; res = raw;
O_Check ==
    /\ Running("o_back")
    /\ stack' = SetTop(IF Stalled(Top.ret, pos, Top.resmark)
                       THEN [Top EXCEPT !.pc = "o_exit", !.prev = Top.ret,
                                        !.raws = Remember(@, Top.ret, pos)]
                       ELSE [Top EXCEPT !.resmark = pos, !.res = Top.ret,
                                        !.prev = Top.ret, !.pc = OuterOrder[1],
                                        !.raws = Remember(@, Top.ret, pos)])
    /\ UNCHANGED <<entry, tokens, pos, memo, result, run_pc, last>>
    /\ UNCHANGED notrun

\* p->mark = resmark; return res;
O_Exit ==
    /\ Running("o_exit")
    /\ pos' = Top.resmark
    /\ Return(Top, Top.res, "exit")
    /\ UNCHANGED <<entry, tokens, memo>>
    /\ UNCHANGED notrun

\* ---- the body: <rule>_rule, or <rule>_raw (visit_Rule 258-297, visit_Alt)

\* res = NULL; if (is_memoized(p, <rule>_type, &res)) return res;
B_Hit ==
    /\ Running("b_entry")
    /\ Memoize(Top.rule)
    /\ is_memoized(memo, pos, Top.rule)
    /\ pos' = memo[<<pos, Top.rule>>].mark
    /\ Return(Top, memo[<<pos, Top.rule>>].node, "memo")
    /\ UNCHANGED <<entry, tokens, memo>>
    /\ UNCHANGED notrun

\* int mark = p->mark; (a loop rule: children = PyMem_Malloc(0); n = 0;) and on
\* to the first alternative.
B_Enter ==
    /\ Running("b_entry")
    /\ ~(Memoize(Top.rule) /\ is_memoized(memo, pos, Top.rule))
    /\ stack' = SetTop([Top EXCEPT !.mark = pos, !.children = <<>>,
                                   !.alt = 1, !.item = 1, !.vals = <<>>,
                                   !.crossed = FALSE, !.pc = "b_item"])
    /\ UNCHANGED <<entry, tokens, pos, memo, result, run_pc, last>>
    /\ UNCHANGED notrun

\* The frame after its current item has succeeded with value v: on to the next
\* item of the && chain, or into the block of the alternative.
ItemDone(f, v) ==
    [f EXCEPT !.vals = Append(f.vals, v),
              !.item = f.item + 1,
              !.pc = IF f.item = Len(ItemsOf(f)) THEN "b_succ" ELSE "b_item"]

\* (<name> = <token fetch>): the current item is a token; it matches the token
\* at p->mark and moves past it, or fails (under Opt: yields NULL).
B_Token ==
    /\ Running("b_item")
    /\ LET c == CallOf(nodes, ItemsOf(Top)[Top.item].item)
           hit == pos < Len(tokens) /\ tokens[pos + 1] = c.what[1]
       IN  /\ c.kind = "token"
           /\ pos' = IF hit THEN pos + 1 ELSE pos
           /\ stack' = SetTop(IF hit THEN ItemDone(Top, Val("tok", pos, <<>>))
                              ELSE IF c.opt THEN ItemDone(Top, NULL)
                              ELSE [Top EXCEPT !.pc = "b_fail"])
    /\ UNCHANGED <<entry, tokens, memo, result, run_pc, last>>
    /\ UNCHANGED notrun

\* (cut_var = cut_token(p)): always succeeds, consumes nothing.
B_CutItem ==
    /\ Running("b_item")
    /\ CallOf(nodes, ItemsOf(Top)[Top.item].item).kind = "cut"
    /\ stack' = SetTop([ItemDone(Top, Val("int", 1, <<>>)) EXCEPT
                            !.cut_var = "set", !.crossed = TRUE])
    /\ UNCHANGED <<entry, tokens, pos, memo, result, run_pc, last>>
    /\ UNCHANGED notrun

\* (<name> = <rule>_rule(p)): the current item is a rule; call it.
B_Call ==
    /\ Running("b_item")
    /\ LET c == CallOf(nodes, ItemsOf(Top)[Top.item].item)
       IN  /\ c.kind = "rule"
           /\ stack' = Push(Top, NewFrame(c.what, "rule", pos))
    /\ UNCHANGED <<entry, tokens, pos, memo, result, run_pc, last>>
    /\ UNCHANGED notrun

\* The called rule has returned: the item succeeds unless it returned NULL
\* (under Opt it always succeeds).
B_Back ==
    /\ Running("b_back")
    /\ LET c == CallOf(nodes, ItemsOf(Top)[Top.item].item)
       IN  stack' = SetTop(IF Top.ret # NULL \/ c.opt THEN ItemDone(Top, Top.ret)
                           ELSE [Top EXCEPT !.pc = "b_fail"])
    /\ UNCHANGED <<entry, tokens, pos, memo, result, run_pc, last>>
    /\ UNCHANGED notrun

\* The default action: res = <the only name>, or CONSTRUCTOR(p, <names>).
DefaultAction(vals) == IF Len(vals) > 1 THEN Val("node", 0, vals) ELSE vals[1]

\* The block of an alternative of a plain rule (visit_Alt 340-360): res = ...;
\* insert_memo(p, mark, <rule>_type, res) when memoizing; goto done.
B_Succ ==
    /\ Running("b_succ")
    /\ ~is_loop(Top.rule)
    /\ LET res == DefaultAction(Top.vals)
       IN  /\ memo' = IF Memoize(Top.rule)
                      THEN put_memo(memo, Top.mark, Top.rule, res, pos, Top.start, "body")
                      ELSE memo
           /\ stack' = SetTop([Top EXCEPT !.res = res, !.pc = "b_done"])
    /\ UNCHANGED <<entry, tokens, pos, result, run_pc, last>>
    /\ UNCHANGED notrun

\* The block of the alternative of a loop rule (visit_Alt 352-356): res = ...;
\* children[n++] = res; mark = p->mark; and the while condition again.
\* children = PyMem_Realloc(children, (n+1)*sizeof(void *)); children[n++] = res;
\* A loop whose iterations each consume a token makes at most MaxInput of them;
\* of a longer run the first MaxInput + 1 children are kept.
Grow(children, res) ==
    IF Len(children) > MaxInput THEN children ELSE Append(children, res)

B_LoopSucc ==
    /\ Running("b_succ")
    /\ is_loop(Top.rule)
    /\ LET res == DefaultAction(Top.vals)
       IN  stack' = SetTop([Top EXCEPT !.res = res,
                                       !.children = Grow(Top.children, res),
                                       !.iters = Grow(Top.iters, res),
                                       !.mark = pos,
                                       !.item = 1, !.vals = <<>>, !.crossed = FALSE,
                                       !.pc = "b_item"])
    /\ UNCHANGED <<entry, tokens, pos, memo, result, run_pc, last>>
    /\ UNCHANGED notrun

\* The frame on its way to the next alternative, or past the last one.
NextAlt(f) ==
    IF f.alt < Len(AltsOf(f.rule))
    THEN [f EXCEPT !.alt = f.alt + 1, !.item = 1, !.vals = <<>>,
                   !.crossed = FALSE, !.pc = "b_item"]
    ELSE [f EXCEPT !.pc = "b_tail"]

\* An item of the alternative has failed (visit_Alt 361-362): } p->mark = mark;
\* then the cut test if the alternative has a cut_var.
B_Fail ==
    /\ Running("b_fail")
    /\ pos' = Top.mark
    /\ stack' = SetTop(IF HasCutVar(Top)
                       THEN [Top EXCEPT !.pc = "b_cut", !.committed = Top.crossed]
                       ELSE NextAlt(Top))
    /\ UNCHANGED <<entry, tokens, memo, result, run_pc, last>>
    /\ UNCHANGED notrun

\* if (cut_var) return NULL; with cut_var assigned by the cut item.
B_CutReturn ==
    /\ Running("b_cut")
    /\ Top.cut_var = "set"
    /\ Return(Top, NULL, "cut")
    /\ UNCHANGED <<entry, tokens, pos, memo>>
    /\ UNCHANGED notrun

\* if (cut_var) return NULL; with cut_var never assigned: `int cut_var;` is
\* declared without an initializer (visit_Rhs 319), so the test reads an
\* indeterminate value and may go either way.
B_CutUninit ==
    /\ Running("b_cut")
    /\ Top.cut_var = "uninit"
    /\ \E taken \in BOOLEAN :
        IF taken
        THEN /\ Return(Top, NULL, "cut")
             /\ UNCHANGED <<entry, tokens, pos, memo>>
        ELSE /\ stack' = SetTop(NextAlt(Top))
             /\ UNCHANGED <<entry, tokens, pos, memo, result, run_pc, last>>
    /\ UNCHANGED notrun

\* Past the last alternative of a plain rule (visit_Rule 290): res = NULL;
B_Tail ==
    /\ Running("b_tail")
    /\ ~is_loop(Top.rule)
    /\ stack' = SetTop([Top EXCEPT !.res = NULL, !.pc = "b_done"])
    /\ UNCHANGED <<entry, tokens, pos, memo, result, run_pc, last>>
    /\ UNCHANGED notrun

\* done: insert_memo(p, mark, <rule>_type, res) when memoizing; return res;
B_Done ==
    /\ Running("b_done")
    /\ memo' = IF Memoize(Top.rule)
               THEN put_memo(memo, Top.mark, Top.rule, Top.res, pos, Top.start, "body")
               ELSE memo
    /\ Return(Top, Top.res, "done")
    /\ UNCHANGED <<entry, tokens, pos>>
    /\ UNCHANGED notrun

\* Past the while of a _loop1_ rule with no iteration (visit_Rule 275-280):
\* if (n == 0) { PyMem_Free(children); return NULL; }
B_LoopNone ==
    /\ Running("b_tail")
    /\ is_loop(Top.rule)
    /\ is_repeat1(Top.rule) /\ Len(Top.children) = 0
    /\ Return(Top, NULL, "tail")
    /\ UNCHANGED <<entry, tokens, pos, memo>>
    /\ UNCHANGED notrun

\* The children in the order the for loop copies them into seq.
SeqOfWrong(children) == [i \in 1..(Len(children) - 1) |-> children[i]]
SeqOf(children) == [i \in 1..Len(children) |-> children[i]]

\* Past the while of a loop rule (visit_Rule 281-287): seq = the n children;
\* insert_memo(p, mark, <rule>_type, seq); return seq;
B_LoopTail ==
    /\ Running("b_tail")
    /\ is_loop(Top.rule)
    /\ ~(is_repeat1(Top.rule) /\ Len(Top.children) = 0)
    /\ LET seq == Val("seq", 0, SeqOf(Top.children))
       IN  /\ memo' = put_memo(memo, Top.mark, Top.rule, seq, pos, Top.start, "body")
           /\ Return(Top, seq, "tail")
    /\ UNCHANGED <<entry, tokens, pos>>
    /\ UNCHANGED notrun

RunNext ==
    \/ Run_Start
    \/ O_Hit
    \/ O_Enter
    \/ O_Update
    \/ O_Reset
    \/ O_Call
    \/ O_Check
    \/ O_Exit
    \/ B_Hit
    \/ B_Enter
    \/ B_Token
    \/ B_CutItem
    \/ B_Call
    \/ B_Back
    \/ B_Succ
    \/ B_LoopSucc
    \/ B_Fail
    \/ B_CutReturn
    \/ B_CutUninit
    \/ B_Tail
    \/ B_Done
    \/ B_LoopNone
    \/ B_LoopTail

\* The token streams of at most MaxInput tokens.
Inputs == UNION {[1..n -> TokenTypes] : n \in 0..MaxInput}

NoReturn ==
    [rule |-> <<>>, fn |-> "", via |-> "", value |-> NULL, iters |-> <<>>,
     crossed |-> FALSE, start |-> 0, raws |-> <<>>]

RunIdle ==
    /\ pos = 0
    /\ memo = <<>>
    /\ stack = <<>>
    /\ result = NULL
    /\ run_pc = "idle"
    /\ last = NoReturn

\* A grammar of RunGrammars, analysed by ParserGenerator.__init__, then run
\* from any of its rules on any token stream.
InitRun ==
    /\ \E g \in DOMAIN RunGrammars :
        /\ nodes = RunGrammars[g].nodes
        /\ rules = RunGrammars[g].rules
    /\ graph = make_first_graph(nodes, rules)
    /\ LRInitFlags
    /\ entry \in RuleNames(rules)
    /\ tokens \in Inputs
    /\ RunIdle
    /\ GenIdle

SpecRun == InitRun /\ [][LRNext \/ RunNext]_vars

\* The analyses and the generated parser run one statement after the other and
\* never wait.
SpecRunFair == SpecRun /\ WF_vars(LRNext \/ RunNext)

\* ============================================================ the generator

\* enumerate(self.todo, 1000): the identifier of the first rule of the work-list.
FirstType == 1000

\* str(self.counter), for the counters a pass can reach.
Digits ==
    <<"1", "2", "3", "4", "5", "6", "7", "8", "9", "10", "11", "12", "13", "14", "15", "16",
      "17", "18", "19", "20", "21", "22", "23", "24">>

\* pegen.tokenizer.exact_token_types (not in src/): punctuation -> the numeric
\* token type, as printed.
exact_token_types == ("+" :> "14") @@ ("(" :> "7") @@ (")" :> "8")

\* str.lower() of the token classes.
lower ==
    [c \in TokenClasses |->
        CASE c = "NAME" -> "name" [] c = "NUMBER" -> "number" [] c = "STRING" -> "string"
          [] c = "CUT" -> "cut" [] c = "CURLY_STUFF" -> "curly_stuff"
          [] c = "NEWLINE" -> "newline" [] c = "DEDENT" -> "dedent"
          [] c = "INDENT" -> "indent" [] c = "ENDMARKER" -> "endmarker"
          [] c = "ASYNC" -> "async" [] c = "AWAIT" -> "await"]

\* re.match(r'[a-zA-Z_]\w*\Z', val), over the literals the grammars use.
IsIdentifier(val) == val \in {"if", "else", "pass"}

\* The generator's mutable state as the visitors see it: self.counter,
\* self.todo, callmakervisitor.cache, the IR nodes, and the exception raised
\* ("" while none is).
GenState(c, t, ch, ns, err) ==
    [counter |-> c, todo |-> t, cache |-> ch, nodes |-> ns, err |-> err]

Raise(g, exc) == IF g.err = "" THEN [g EXCEPT !.err = exc] ELSE g

\* name_node(rhs): a fresh _tmp_<n> whose body is rhs, appended to the work-list.
name_node(g, rhs) ==
    LET name == <<"_tmp_", Digits[g.counter + 1]>>
    IN  [g EXCEPT !.counter = @ + 1,
                  !.todo = Append(@, Rule(name, "", rhs))]

\* name_loop(node, is_repeat1): a fresh _loop0_<n> / _loop1_<n> whose body is a
\* new Rhs([Alt([NamedItem(None, node)])]).
name_loop(g, node, repeat1) ==
    LET prefix == IF repeat1 THEN "_loop1_" ELSE "_loop0_"
        name == <<prefix, Digits[g.counter + 1]>>
        ns == Append(g.nodes, Rhs(<<PlainAlt(<<node>>)>>))
    IN  [g EXCEPT !.counter = @ + 1,
                  !.nodes = ns,
                  !.todo = Append(@, Rule(name, "", Len(ns)))]

\* The name the latest name_node / name_loop returned.
NewestName(g) == g.todo[Len(g.todo)].name

\* `if node in self.cache`
CachedWrong(ch, id) == FALSE
Cached(ch, id) == id \in DOMAIN ch

\* self.cache[node] = (name, call)
Store(g, id, name, call) ==
    [g EXCEPT !.cache = [k \in DOMAIN g.cache \cup {id} |->
                            IF k = id THEN [name |-> name, call |-> call]
                            ELSE g.cache[k]]]

\* What a visit of the call maker returns, with the state it leaves.
Planned(g, name, call) == [g |-> g, name |-> name, call |-> call]

\* f"{name}_var", f"{name}_rule(p)"
RuleCall(g, name) == Planned(g, name \o <<"_var">>, name \o <<"_rule", "(", "p", ")">>)

\* lookahead_call_helper: the call text of the inner node is split at its first
\* '(' into func and args; the wrapper depends on whether args is `p`, `p, <int>`
\* or `p, "<string>"`.
lookahead_call_helper(r, positive) ==
    LET call == r.call
        open == CHOOSE i \in DOMAIN call :
                    call[i] = "(" /\ \A j \in 1..(i - 1) : call[j] # "("
        func == SubSeq(call, 1, open - 1)
        args == SubSeq(call, open + 1, Len(call) - 1)
        wrapper == IF args[1] # "p," THEN "lookahead"
                   ELSE IF Len(args) = 2 /\ \E v \in DOMAIN exact_token_types :
                                                exact_token_types[v] = args[2]
                        THEN "lookahead_with_int"
                        ELSE "lookahead_with_string"
    IN  IF r.g.err # "" THEN r
        ELSE IF call[Len(call)] # ")" THEN Planned(Raise(r.g, "AssertionError"), <<>>, <<>>)
        ELSE Planned(r.g, <<>>,
                     <<wrapper, "(", positive, ", ">> \o func \o <<", ">> \o args \o <<")">>)

RECURSIVE Visit(_, _)
\* CCallMakerVisitor.visit(node): the (name, call) pair of a node, allocating a
\* helper rule for a Repeat0, a Repeat1, or an Rhs that is not a single item,
\* unless the node is in the cache.
Visit(g, id) ==
    LET n == g.nodes[id]
    IN  CASE g.err # "" -> Planned(g, <<>>, <<>>)
          [] n.kind = "NameLeaf" ->
                IF IsTokenLeaf(n)
                THEN LET name == lower[n.value[1]]
                     IN  Planned(g, <<name, "_var">>, <<name, "_token", "(", "p", ")">>)
                ELSE RuleCall(g, n.value)
          [] n.kind = "StringLeaf" ->
                IF IsIdentifier(n.value[1])
                THEN Planned(g, <<"keyword">>,
                             <<"keyword_token", "(", "p,", " \"", n.value[1], "\"", ")">>)
                ELSE IF n.value[1] \in DOMAIN exact_token_types
                     THEN Planned(g, <<"literal">>,
                                  <<"expect_token", "(", "p,", exact_token_types[n.value[1]], ")">>)
                     ELSE Planned(Raise(g, "AssertionError"), <<>>, <<>>)
          [] n.kind = "Rhs" ->
                IF Cached(g.cache, id)
                THEN Planned(g, g.cache[id].name, g.cache[id].call)
                ELSE IF Len(n.alts) = 1 /\ Len(n.alts[1].items) = 1
                     THEN LET item == n.alts[1].items[1]
                              r == Visit(g, item.item)
                              name == IF item.name # <<>> THEN item.name ELSE r.name
                          IN  Planned(Store(r.g, id, name, r.call), name, r.call)
                     ELSE LET g2 == name_node(g, id)
                              r == RuleCall(g2, NewestName(g2))
                          IN  Planned(Store(g2, id, r.name, r.call), r.name, r.call)
          [] n.kind \in {"Repeat0", "Repeat1"} ->
                IF Cached(g.cache, id)
                THEN Planned(g, g.cache[id].name, g.cache[id].call)
                ELSE LET g2 == name_loop(g, n.child, n.kind = "Repeat1")
                         r == RuleCall(g2, NewestName(g2))
                     IN  Planned(Store(g2, id, r.name, r.call), r.name, r.call)
          [] n.kind = "Opt" ->
                LET r == Visit(g, n.child)
                IN  Planned(r.g, <<"opt", "_var">>, r.call \o <<", 1">>)
          [] n.kind = "Group" -> Visit(g, n.child)
          [] n.kind = "PositiveLookahead" -> lookahead_call_helper(Visit(g, n.child), "1")
          [] n.kind = "NegativeLookahead" -> lookahead_call_helper(Visit(g, n.child), "0")

\* CCallMakerVisitor.visit_NamedItem: the bind name, when there is one, replaces
\* the name of the item.
VisitNamedItem(g, item) ==
    LET r == Visit(g, item.item)
    IN  Planned(r.g, IF item.name # <<>> THEN item.name ELSE r.name, r.call)

\* ------------------------------------------------ Rule.collect_todo (4.2)

RECURSIVE PlanItems(_, _, _)
\* The items of an alternative from the i-th on, each planned by the call maker.
PlanItems(g, items, i) ==
    IF g.err # "" \/ i > Len(items) THEN g
    ELSE PlanItems(VisitNamedItem(g, items[i]).g, items, i + 1)

RECURSIVE PlanAlts(_, _, _)
PlanAlts(g, alts, a) ==
    IF g.err # "" \/ a > Len(alts) THEN g
    ELSE PlanAlts(PlanItems(g, alts[a].items, 1), alts, a + 1)

\* rule.flatten() (pegen.grammar, not in src/): the Rhs of the rule. No rule of
\* the grammars here is a single parenthesized group.
flatten(rule) == rule.rhs

\* Rule.collect_todo(gen): walks every alternative and item of the rule.
RuleCollectTodo(g, rule) == PlanAlts(g, g.nodes[flatten(rule)].alts, 1)

\* ------------------------------------------------------------ the emitter

\* One print: op says which statement, rule and alt where it was printed from,
\* name / text / names / n / decl carry what the statement interpolates.
Line(op) ==
    [op |-> op, rule |-> <<>>, alt |-> 0, name |-> <<>>, text |-> <<>>,
     names |-> <<>>, n |-> 0, decl |-> {}]

\* The emitter's state: the generator's, the lines printed so far by the
\* current visit_Rule, self._varname_counter, the rule and alternative being
\* visited, and the names list of the alternative.
EmitState(g, vc) ==
    [g |-> g, lines |-> <<>>, vc |-> vc, rule |-> <<>>, alt |-> 0, names |-> <<>>]

\* self.print(...): nothing is printed once an exception is on its way.
Put(e, line) ==
    IF e.g.err # "" THEN e
    ELSE [e EXCEPT !.lines = Append(@, [line EXCEPT !.rule = e.rule, !.alt = e.alt])]

\* A run of prints that interpolate nothing.
PutAll(e, ops) ==
    IF e.g.err # "" THEN e
    ELSE [e EXCEPT !.lines = @ \o [i \in DOMAIN ops |->
                                     [Line(ops[i]) EXCEPT !.rule = e.rule, !.alt = e.alt]]]

\* pegen.parser_generator.dedupe(name, names) (not in src/): the name, or the
\* name with the first suffix _1, _2, ... that is not in names.
Suffixes == <<"_1", "_2", "_3", "_4", "_5">>

RECURSIVE DedupeFrom(_, _, _)
DedupeFrom(name, names, k) ==
    LET candidate == IF k = 0 THEN name ELSE Append(name, Suffixes[k])
    IN  IF \E i \in DOMAIN names : names[i] = candidate
        THEN DedupeFrom(name, names, k + 1)
        ELSE candidate

dedupe(name, names) == DedupeFrom(name, names, 0)

\* add_var(node, names): the name under which the item's variable is declared,
\* its type, and the names list afterwards.
add_var(g, item, names) ==
    LET r == Visit(g, item.item)
        name == r.name
        ruletype ==
            IF name # <<>> /\ name[Len(name)] = "_var"
            THEN LET rulename == SubSeq(name, 1, Len(name) - 1)
                 IN  IF rulename \in RuleNames(rules)
                     THEN IF is_loop(rulename) THEN "asdl_seq *"
                          ELSE RuleNamed(rules, rulename).type
                     ELSE IF name[1] \in {"_loop0_", "_loop1_"} THEN "asdl_seq *"
                          ELSE ""
            ELSE ""
        bound == IF item.name # <<>> THEN item.name ELSE name
        final == dedupe(bound, names)
    IN  IF name = <<>> THEN [g |-> r.g, name |-> name, type |-> "", names |-> names]
        ELSE IF name[1] = "cut"
             THEN [g |-> r.g, name |-> name, type |-> "int", names |-> names]
             ELSE [g |-> r.g, name |-> final, type |-> ruletype,
                   names |-> Append(names, final)]

\* types[name] = type
SetType(types, name, type) ==
    [k \in DOMAIN types \cup {name} |-> IF k = name THEN type ELSE types[k]]

RECURSIVE CollectItems(_, _, _, _, _)
\* collect_vars(alt), folded into the vars of visit_Rhs: vars.update(types).
CollectItems(g, items, i, names, types) ==
    IF g.err # "" \/ i > Len(items) THEN [g |-> g, types |-> types]
    ELSE LET v == add_var(g, items[i], names)
         IN  CollectItems(v.g, items, i + 1, v.names, SetType(types, v.name, v.type))

RECURSIVE collect_vars(_, _, _, _)
collect_vars(g, alts, a, types) ==
    IF g.err # "" \/ a > Len(alts) THEN [g |-> g, types |-> types]
    ELSE LET c == CollectItems(g, alts[a].items, 1, <<>>, types)
         IN  collect_vars(c.g, alts, a + 1, c.types)

\* self.print under a condition.
PutIf(cond, e, line) == IF cond THEN Put(e, line) ELSE e

PutAllIf(cond, e, ops) == IF cond THEN PutAll(e, ops) ELSE e

\* CParserGenerator.visit_NamedItem(node, names), r being what the call maker
\* returned for node: prints the call of an unnamed item, or the assignment of
\* the call to the item's de-duplicated name.
PrintItem(e, r) ==
    IF r.name = <<>>
    THEN Put([e EXCEPT !.g = r.g], [Line("call") EXCEPT !.text = r.call])
    ELSE IF r.name # <<"cut">>
         THEN Put([e EXCEPT !.g = r.g, !.names = Append(@, dedupe(r.name, e.names))],
                  [Line("assign") EXCEPT !.name = dedupe(r.name, e.names), !.text = r.call])
         ELSE Put([e EXCEPT !.g = r.g],
                  [Line("assign") EXCEPT !.name = r.name, !.text = r.call])

visit_NamedItem(e, item) == PrintItem(e, VisitNamedItem(e.g, item))

RECURSIVE VisitItems(_, _, _)
\* for item in node.items: "&&" between two items.
VisitItems(e, items, i) ==
    IF e.g.err # "" \/ i > Len(items) THEN e
    ELSE VisitItems(visit_NamedItem(PutIf(i > 1, e, Line("&&")), items[i]), items, i + 1)

\* visit_Alt 340-350: res = CONSTRUCTOR(p, names...), res = names[0] (an
\* IndexError when no item has a name), or res = <action>.
PrintResult(e, action) ==
    IF e.g.err # "" THEN e
    ELSE IF action # "" THEN Put(e, [Line("res = action") EXCEPT !.text = <<action>>])
    ELSE IF Len(e.names) > 1 THEN Put(e, [Line("res = CONSTRUCTOR") EXCEPT !.names = e.names])
    ELSE IF e.names = <<>> THEN [e EXCEPT !.g = Raise(@, "IndexError")]
    ELSE Put(e, [Line("res = name") EXCEPT !.name = e.names[1]])

\* visit_Alt 352-360: what follows the assignment of res.
PrintSuccess(e, lp, rulename) ==
    IF lp
    THEN PutAll(e, <<"children = PyMem_Realloc", "if (!children) {", "PyErr_Format",
                     "return NULL;", "}", "children[n++] = res;", "mark = p->mark;">>)
    ELSE Put(PutIf(rulename # <<>>, e,
                   [Line("insert_memo") EXCEPT !.name = rulename, !.text = <<"res">>]),
             Line("goto done;"))

\* visit_Alt 361-364
PrintFailure(e) ==
    PutIf(\E i \in DOMAIN e.names : e.names[i] = <<"cut", "_var">>,
          PutAll(e, <<"}", "p->mark = mark;">>),
          Line("if (cut_var) return NULL;"))

\* visit_Alt(node, is_loop, rulename): rulename is <<>> for None.
visit_Alt(e0, alt, a, lp, rulename) ==
    LET e1 == PutAll([e0 EXCEPT !.alt = a, !.names = <<>>],
                     <<"alt_comment", IF lp THEN "while (" ELSE "if (">>)
        e2 == Put(VisitItems(e1, alt.items, 1), Line(") {"))
    IN  PrintFailure(PrintSuccess(PrintResult(e2, alt.action), lp, rulename))

RECURSIVE VisitAlts(_, _, _, _, _)
VisitAlts(e, alts, a, lp, rulename) ==
    IF e.g.err # "" \/ a > Len(alts) THEN e
    ELSE VisitAlts(visit_Alt(e, alts[a], a, lp, rulename), alts, a + 1, lp, rulename)

\* visit_Rhs 314-319, c being the vars collected: the declarations (printed
\* sorted by name, here the set of them).
PrintDeclarations(e, c) ==
    IF c.g.err # "" THEN [e EXCEPT !.g = c.g]
    ELSE PutIf(DOMAIN c.types \ {<<>>} # {},
               [e EXCEPT !.g = c.g],
               [Line("declarations") EXCEPT
                   !.decl = {<<v, IF c.types[v] = "" THEN "void *" ELSE c.types[v]>> :
                                v \in DOMAIN c.types \ {<<>>}}])

\* visit_Rhs(node, is_loop, rulename)
visit_Rhs(e, id, lp, rulename) ==
    IF e.g.err # "" THEN e
    ELSE IF lp /\ Len(e.g.nodes[id].alts) # 1 THEN [e EXCEPT !.g = Raise(@, "AssertionError")]
    ELSE VisitAlts(PrintDeclarations(e, collect_vars(e.g, e.g.nodes[id].alts, 1, <<>>)),
                   e.g.nodes[id].alts, 1, lp, rulename)

\* The type visit_Rule and the forward declarations print for a rule.
TypeOf(rule) ==
    IF is_loop(rule.name) THEN "asdl_seq *" ELSE IF rule.type # "" THEN rule.type ELSE "void *"

\* One statement of the seed-growing loop before its test:
\* call_with_errorcheck_return(update_memo...), p->mark = mark, or the raw call.
OuterStatement(e, name, label) ==
    CASE label = "o_update" ->
            PutAll([Put(e, [Line("int tmpvar = update_memo") EXCEPT !.name = name, !.n = e.vc])
                       EXCEPT !.vc = @ + 1],
                   <<"if (tmpvar) {", "return res;", "}">>)
      [] label = "o_reset" -> Put(e, Line("p->mark = mark;"))
      [] label = "o_call" -> Put(e, [Line("void *raw = raw(p);") EXCEPT !.name = name])

RECURSIVE OuterLoop(_, _, _)
\* The statements of the loop before its test, in OuterOrder.
OuterLoop(e, name, labels) ==
    IF e.g.err # "" \/ labels = <<>> THEN e
    ELSE OuterLoop(OuterStatement(e, name, Head(labels)), name, Tail(labels))

\* visit_Rule(node), lines 231-256: the outer function of a left-recursive rule
\* and the head of its _raw function.
OuterFunction(e0, node) ==
    LET e1 == PutAll(e0, <<"{", "res = NULL;", "if (is_memoized)", "return res;",
                           "int mark = p->mark;", "int resmark = p->mark;",
                           "while (1) {">>)
        e2 == OuterLoop(e1, node.name, OuterOrder)
        e3 == PutAll(e2, <<"if (raw == NULL || p->mark <= resmark)", "break;",
                           "resmark = p->mark;", "res = raw;", "}",
                           "p->mark = resmark;", "return res;", "}">>)
    IN  Put(e3, [Line("raw_head") EXCEPT !.name = node.name, !.text = <<TypeOf(node)>>])

\* visit_Rule 224-229: the comment, the declaration of <name>_raw of a
\* left-recursive rule, the head of <name>_rule.
RuleHead(e0, node) ==
    LET e1 == Put([e0 EXCEPT !.rule = node.name], Line("rule_comment"))
        e2 == PutIf(HasRaw(node.name), e1,
                    [Line("raw_declaration") EXCEPT !.name = node.name,
                                                    !.text = <<TypeOf(node)>>])
    IN  Put(e2, [Line("rule_head") EXCEPT !.name = node.name, !.text = <<TypeOf(node)>>])

\* visit_Rule 258-273: the function body up to the last alternative.
RuleBody(e0, node) ==
    LET b1 == PutAll(e0, <<"{", IF is_loop(node.name) THEN "void *res = NULL;"
                                ELSE "res = NULL;">>)
        b2 == PutAllIf(Memoize(node.name), b1, <<"if (is_memoized)", "return res;">>)
        b3 == Put(b2, Line("int mark = p->mark;"))
        b4 == PutAllIf(is_loop(node.name), b3,
                       <<"void **children = PyMem_Malloc(0);", "if (!children) {",
                         "PyErr_Format", "return NULL;", "}", "ssize_t n = 0;">>)
    IN  visit_Rhs(b4, flatten(node), is_loop(node.name),
                  IF Memoize(node.name) THEN node.name ELSE <<>>)

\* visit_Rule 274-287: the tail of a loop rule.
LoopTail(e0, node) ==
    LET t1 == PutAllIf(is_repeat1(node.name), e0,
                       <<"if (n == 0) {", "PyMem_Free(children);", "return NULL;", "}">>)
        t2 == PutAll(t1, <<"asdl_seq *seq = _Py_asdl_seq_new", "if (!seq) {", "PyErr_Format",
                           "return NULL;", "}", "asdl_seq_SET", "PyMem_Free(children);">>)
        t3 == Put(t2, [Line("insert_memo") EXCEPT !.name = node.name, !.text = <<"seq">>])
    IN  Put(t3, Line("return seq;"))

\* visit_Rule 290-296: the tail of any other rule.
PlainTail(e0, node) ==
    LET t1 == PutAll(e0, <<"res = NULL;", "done:">>)
        t2 == PutIf(Memoize(node.name), t1,
                    [Line("insert_memo") EXCEPT !.name = node.name, !.text = <<"res">>])
    IN  Put(t2, Line("return res;"))

\* The outer function, when the rule is left-recursive.
WithOuter(e, node) == IF HasRaw(node.name) THEN OuterFunction(e, node) ELSE e

\* The tail of the body.
WithTail(e, node) ==
    IF e.g.err # "" THEN e
    ELSE IF is_loop(node.name) THEN LoopTail([e EXCEPT !.alt = 0], node)
    ELSE PlainTail([e EXCEPT !.alt = 0], node)

\* visit_Rule(node)
visit_Rule(e, node) ==
    Put(WithTail(RuleBody(WithOuter(RuleHead(e, node), node), node), node), Line("}"))

\* ------------------------------------------------- the generation pass

\* The grammars the pass is run over.
\*   1  a: b '+' | NAME          b: a NUMBER | NUMBER      start: a ENDMARKER
\*   2  start[mod_ty]: (NAME | NUMBER)+ a                a: NUMBER* '+'? | 'if' &NAME NAME
\*   3  start: NAME* '$'                                  ('$' is no known literal)
\*   4  a: b | c | NAME    b: a | c | NUMBER    c: a | b | NAME    (no leader)
\*   5  expr: expr '+' NAME | NAME                        (no start rule)
\*   6  start: cut=NAME cut=NUMBER { f(cut) } | x=NAME x=NAME | NAME ~ NAME x=NAME
\*   7  start: NAME ~ NAME ~ NAME
GenGrammars ==
    << [nodes |-> << Rhs(<<PlainAlt(<<2, 3>>), PlainAlt(<<4>>)>>),
                     NameLeaf(<<"b">>), StringLeaf(<<"+">>), NameLeaf(<<"NAME">>),
                     Rhs(<<PlainAlt(<<6, 7>>), PlainAlt(<<8>>)>>),
                     NameLeaf(<<"a">>), NameLeaf(<<"NUMBER">>), NameLeaf(<<"NUMBER">>),
                     Rhs(<<PlainAlt(<<10, 11>>)>>),
                     NameLeaf(<<"a">>), NameLeaf(<<"ENDMARKER">>) >>,
        rules |-> << Rule(<<"a">>, "", 1), Rule(<<"b">>, "", 5), Rule(<<"start">>, "", 9) >>],
       [nodes |-> << Rhs(<<PlainAlt(<<2, 7>>)>>),
                     Repeat1(3), Group(4), Rhs(<<PlainAlt(<<5>>), PlainAlt(<<6>>)>>),
                     NameLeaf(<<"NAME">>), NameLeaf(<<"NUMBER">>),
                     NameLeaf(<<"a">>),
                     Rhs(<<PlainAlt(<<9, 11>>), PlainAlt(<<13, 14, 16>>)>>),
                     Repeat0(10), NameLeaf(<<"NUMBER">>),
                     Opt(12), StringLeaf(<<"+">>),
                     StringLeaf(<<"if">>), PositiveLookahead(15), NameLeaf(<<"NAME">>),
                     NameLeaf(<<"NAME">>) >>,
        rules |-> << Rule(<<"start">>, "mod_ty", 1), Rule(<<"a">>, "", 8) >>],
       [nodes |-> << Rhs(<<PlainAlt(<<2, 4>>)>>),
                     Repeat0(3), NameLeaf(<<"NAME">>), StringLeaf(<<"$">>) >>,
        rules |-> << Rule(<<"start">>, "", 1) >>],
       [nodes |-> << Rhs(<<PlainAlt(<<2>>), PlainAlt(<<3>>), PlainAlt(<<4>>)>>),
                     NameLeaf(<<"b">>), NameLeaf(<<"c">>), NameLeaf(<<"NAME">>),
                     Rhs(<<PlainAlt(<<6>>), PlainAlt(<<7>>), PlainAlt(<<8>>)>>),
                     NameLeaf(<<"a">>), NameLeaf(<<"c">>), NameLeaf(<<"NUMBER">>),
                     Rhs(<<PlainAlt(<<10>>), PlainAlt(<<11>>), PlainAlt(<<12>>)>>),
                     NameLeaf(<<"a">>), NameLeaf(<<"b">>), NameLeaf(<<"NAME">>) >>,
        rules |-> << Rule(<<"a">>, "", 1), Rule(<<"b">>, "", 5), Rule(<<"c">>, "", 9) >>],
       [nodes |-> << Rhs(<<PlainAlt(<<2, 3, 4>>), PlainAlt(<<5>>)>>),
                     NameLeaf(<<"expr">>), StringLeaf(<<"+">>), NameLeaf(<<"NAME">>),
                     NameLeaf(<<"NAME">>) >>,
        rules |-> << Rule(<<"expr">>, "", 1) >>],
       [nodes |-> << Rhs(<<ActionAlt(<<NamedItem(<<"cut">>, 2), NamedItem(<<"cut">>, 3)>>,
                                     "{ f(cut) }"),
                           Alt(<<NamedItem(<<"x">>, 4), NamedItem(<<"x">>, 5)>>),
                           Alt(<<NamedItem(<<>>, 6), NamedItem(<<>>, 7), NamedItem(<<>>, 8),
                                 NamedItem(<<"x">>, 9)>>)>>),
                     NameLeaf(<<"NAME">>), NameLeaf(<<"NUMBER">>),
                     NameLeaf(<<"NAME">>), NameLeaf(<<"NAME">>),
                     NameLeaf(<<"NAME">>), NameLeaf(<<"CUT">>), NameLeaf(<<"NAME">>),
                     NameLeaf(<<"NAME">>) >>,
        rules |-> << Rule(<<"start">>, "", 1) >> ],
       [nodes |-> << Rhs(<<PlainAlt(<<2, 3, 4, 5, 6>>)>>),
                     NameLeaf(<<"NAME">>), NameLeaf(<<"CUT">>), NameLeaf(<<"NAME">>),
                     NameLeaf(<<"CUT">>), NameLeaf(<<"NAME">>) >>,
        rules |-> << Rule(<<"start">>, "", 1) >> ] >>

\* The visitors' view of the generator.
Gen == GenState(counter, todo, cache, nodes, "")

\* The generator after a visit that went from its state to g; here is where the
\* pass goes on unless the visit raised.
Visited(g, here) ==
    /\ counter' = g.counter
    /\ todo' = g.todo
    /\ cache' = g.cache
    /\ nodes' = g.nodes
    /\ error' = g.err
    /\ gen_pc' = IF g.err # "" THEN "error" ELSE here

\* The generator and its output after visit_Rule left the emitter state e.
Emitted(e) ==
    /\ Visited(e.g, "bodies")
    /\ varname_counter' = e.vc
    /\ out' = out \o <<Line("")>> \o e.lines

\* ParserGenerator.__init__ 83-84, CParserGenerator.__init__ 151-152, and the
\* entry of generate into collect_todo (done = set()).
G_New ==
    /\ gen_pc = "init"
    /\ lr_pc = "returned"
    /\ todo' = rules
    /\ counter' = 0
    /\ cache' = <<>>
    /\ varname_counter' = 0
    /\ done_names' = {}
    /\ gen_pc' = "while"
    /\ UNCHANGED <<given, round, out, error, closed, pass, prev_out>>
    /\ UNCHANGED <<lrvars, irvars, runvars>>

\* The ValueError of compute_left_recursives leaves __init__.
G_Raise ==
    /\ gen_pc = "init"
    /\ lr_pc = "raised"
    /\ error' = "ValueError"
    /\ gen_pc' = "error"
    /\ UNCHANGED <<given, todo, counter, cache, done_names, round, varname_counter,
                   out, closed, pass, prev_out>>
    /\ UNCHANGED <<lrvars, irvars, runvars>>

\* collect_todo, `while True:` alltodo = set(self.todo); todo = alltodo - done;
\* break when empty. done = alltodo, which the code assigns after the for loop,
\* is not read in between.
G_While ==
    /\ gen_pc = "while"
    /\ LET alltodo == RuleNames(todo)
       IN  IF alltodo \ done_names = {}
           THEN /\ gen_pc' = "header"
                /\ closed' = counter
                /\ UNCHANGED <<round, done_names>>
           ELSE /\ gen_pc' = "for"
                /\ round' = alltodo \ done_names
                /\ done_names' = alltodo
                /\ UNCHANGED closed
    /\ UNCHANGED <<given, todo, counter, cache, varname_counter, out, error, pass, prev_out>>
    /\ UNCHANGED <<lrvars, irvars, runvars>>

\* `for rulename in todo: self.todo[rulename].collect_todo(self)`: todo is a
\* set, so the rules of a round come in any order.
G_Visit ==
    /\ gen_pc = "for"
    /\ \E rulename \in round :
        /\ round' = round \ {rulename}
        /\ Visited(RuleCollectTodo(Gen, RuleNamed(todo, rulename)),
                   IF round' = {} THEN "while" ELSE "for")
    /\ UNCHANGED <<given, done_names, varname_counter, out, closed, pass, prev_out>>
    /\ UNCHANGED <<lrvars, rules, runvars>>

\* self.print(EXTENSION_PREFIX.format(filename=filename))
G_Header ==
    /\ gen_pc = "header"
    /\ out' = Append(out, Line("prefix"))
    /\ gen_pc' = "defines"
    /\ UNCHANGED <<given, todo, counter, cache, done_names, round, varname_counter,
                   error, closed, pass, prev_out>>
    /\ UNCHANGED <<lrvars, irvars, runvars>>

\* for i, rulename in enumerate(self.todo, 1000): #define <rulename>_type <i>
G_Defines ==
    /\ gen_pc = "defines"
    /\ out' = out \o [i \in DOMAIN todo |->
                         [Line("#define") EXCEPT !.name = todo[i].name, !.n = FirstType + i - 1]]
                  \o <<Line("")>>
    /\ gen_pc' = "declarations"
    /\ UNCHANGED <<given, todo, counter, cache, done_names, round, varname_counter,
                   error, closed, pass, prev_out>>
    /\ UNCHANGED <<lrvars, irvars, runvars>>

\* for rulename, rule in self.todo.items(): static <type><rulename>_rule(Parser *p);
G_Declarations ==
    /\ gen_pc = "declarations"
    /\ out' = out \o [i \in DOMAIN todo |->
                         [Line("forward_declaration") EXCEPT !.name = todo[i].name,
                                                             !.text = <<TypeOf(todo[i])>>]]
                  \o <<Line("")>>
    /\ gen_pc' = "bodies"
    /\ UNCHANGED <<given, todo, counter, cache, done_names, round, varname_counter,
                   error, closed, pass, prev_out>>
    /\ UNCHANGED <<lrvars, irvars, runvars>>

\* `while self.todo: for rulename, rule in list(self.todo.items()):` the first
\* rule of the work-list is deleted from it and visited; a rule added meanwhile
\* goes to the end and is reached by a later round of the while.
G_Body ==
    /\ gen_pc = "bodies"
    /\ todo # <<>>
    /\ Emitted(visit_Rule(EmitState([Gen EXCEPT !.todo = Tail(todo)], varname_counter),
                          Head(todo)))
    /\ UNCHANGED <<given, done_names, round, closed, pass, prev_out>>
    /\ UNCHANGED <<lrvars, rules, runvars>>

\* mode = int(self.rules['start'].type == 'mod_ty'), then the suffix: a
\* KeyError when the grammar has no rule start.
G_Suffix ==
    /\ gen_pc = "bodies"
    /\ todo = <<>>
    /\ IF <<"start">> \in RuleNames(rules)
       THEN /\ out' = Append(out, [Line("suffix") EXCEPT
                                     !.n = IF RuleNamed(rules, <<"start">>).type = "mod_ty"
                                           THEN 1 ELSE 0])
            /\ gen_pc' = "finished"
            /\ UNCHANGED error
       ELSE /\ error' = "KeyError"
            /\ gen_pc' = "error"
            /\ UNCHANGED out
    /\ UNCHANGED <<given, todo, counter, cache, done_names, round, varname_counter,
                   closed, pass, prev_out>>
    /\ UNCHANGED <<lrvars, irvars, runvars>>

\* A second pass over the same grammar IR, by a new generator writing to a new
\* stream: the rules keep the flags the first pass set on them.
G_Again ==
    /\ gen_pc \in {"finished", "error"}
    /\ pass = 1
    /\ pass' = 2
    /\ prev_out' = out
    /\ out' = <<>>
    /\ error' = ""
    /\ gen_pc' = "init"
    /\ nodes' = GenGrammars[given].nodes
    /\ lr_pc' = "start"
    /\ sccs' = {}
    /\ scc' = {}
    /\ leaders' = {}
    /\ starts' = {}
    /\ todo' = <<>>
    /\ counter' = 0
    /\ cache' = <<>>
    /\ done_names' = {}
    /\ round' = {}
    /\ varname_counter' = 0
    /\ closed' = 0
    /\ UNCHANGED <<given, graph, left_recursive, leader, rules, runvars>>

GenNext ==
    \/ G_New
    \/ G_Raise
    \/ G_While
    \/ G_Visit
    \/ G_Header
    \/ G_Defines
    \/ G_Declarations
    \/ G_Body
    \/ G_Suffix
    \/ G_Again

InitGen ==
    /\ given \in DOMAIN GenGrammars
    /\ nodes = GenGrammars[given].nodes
    /\ rules = GenGrammars[given].rules
    /\ graph = make_first_graph(nodes, rules)
    /\ LRInitFlags
    /\ entry = <<>>
    /\ tokens = <<>>
    /\ RunIdle
    /\ gen_pc = "init"
    /\ todo = <<>>
    /\ counter = 0
    /\ cache = <<>>
    /\ done_names = {}
    /\ round = {}
    /\ varname_counter = 0
    /\ out = <<>>
    /\ error = ""
    /\ closed = 0
    /\ pass = 1
    /\ prev_out = <<>>

SpecGen == InitGen /\ [][LRNext \/ GenNext]_vars

\* ================================================================== claims

\* The simple cycles of the graph inside s, whatever vertex they leave from.
SimpleCyclesIn(s) ==
    {p \in DistinctSeqs(s) :
        /\ \A i \in 1..(Len(p) - 1) : p[i + 1] \in graph[p[i]]
        /\ p[1] \in graph[p[Len(p)]]}

\* The members of s that lie on every simple cycle inside s.
OnEveryCycle(s) == {v \in s : \A p \in SimpleCyclesIn(s) : v \in SetOf(p)}

BigSccs == {s \in strongly_connected_components(graph) : Cardinality(s) > 1}

\* C2: once compute_left_recursives has returned, every member of every SCC of
\* size > 1 is left_recursive, exactly one member is leader, and it is the
\* smallest name among the members that lie on every simple cycle of the SCC; an
\* SCC without such a member makes the function raise, never return.
C2_LeaderIsMinCommon ==
    lr_pc = "returned" =>
        \A s \in BigSccs :
            /\ s \subseteq left_recursive
            /\ OnEveryCycle(s) # {}
            /\ \E l \in s :
                /\ s \cap leader = {l}
                /\ l \in OnEveryCycle(s)
                /\ \A m \in OnEveryCycle(s) : Rank(l) <= Rank(m)

\* C2 witness: a return with an SCC of three rules of which some, but not all,
\* lie on every cycle, and the leader is not the smallest name of the SCC.
C2_Witness ==
    /\ lr_pc = "returned"
    /\ \E s \in BigSccs :
        /\ Cardinality(s) = 3
        /\ OnEveryCycle(s) # s
        /\ \E l \in s \cap leader : \E m \in s : Rank(m) < Rank(l)

\* C2, the raising half: the function raises only for an SCC no member of which
\* lies on every cycle.
C2_RaiseWitness ==
    /\ lr_pc = "raised"
    /\ OnEveryCycle(scc) = {}

\* The frames of seed-growing loops whose raw body has just been called.
RawCalls ==
    {i \in 1..(Len(stack) - 1) :
        /\ stack[i].pc = "o_call"
        /\ stack[i + 1].fn = "raw"
        /\ stack[i + 1].pc = "b_entry"}

\* C3: whenever the seed-growing loop calls the raw body, the memo entry of
\* (rule, mark) holds the raw result of the previous iteration (NULL before the
\* first) together with the position that result ended at, and the input
\* position is back at mark: update_memo ran before p->mark = mark, and both
\* before the call.
C3_SeedBeforeRaw ==
    \A i \in RawCalls :
        LET f == stack[i]
        IN  /\ is_memoized(memo, f.mark, f.rule)
            /\ memo[<<f.mark, f.rule>>].node = f.prev
            /\ memo[<<f.mark, f.rule>>].mark = f.resmark
            /\ pos = f.mark

\* C3 witness: a raw call of a later iteration, whose seed is a result that
\* ended past mark.
C3_Witness ==
    \E i \in RawCalls :
        /\ stack[i].prev # NULL
        /\ stack[i].resmark > stack[i].mark
        /\ memo[<<stack[i].mark, stack[i].rule>>].node = stack[i].prev

\* C4: a rule returns through `if (cut_var) return NULL;` only when the failed
\* attempt of the alternative had passed its cut, and an attempt that had passed
\* its cut and failed goes nowhere but to that return.
C4_CutIffCrossed ==
    /\ last.via = "cut" => last.crossed
    /\ \A i \in DOMAIN stack : stack[i].committed => stack[i].pc = "b_cut"

\* C8: a loop rule that leaves its while after n iterations returns the asdl_seq
\* of the n results in order; with n = 0, a _loop1_ rule returns NULL and a
\* _loop0_ rule the empty asdl_seq.
C8_LoopResult ==
    last.via = "tail" =>
        IF last.iters = <<>> /\ last.rule[1] = "_loop1_"
        THEN last.value = NULL
        ELSE last.value = Val("seq", 0, last.iters)

\* C8 witness: a loop rule has returned after two or more iterations.
C8_Witness ==
    /\ last.via = "tail"
    /\ Len(last.iters) >= 2
    /\ last.value.kids = last.iters

\* C10: every memo entry written by a rule body is keyed by the position at
\* which the writing invocation started.
C10_BodyMemoKeyedByStart ==
    \A key \in DOMAIN memo : memo[key].by = "body" => key[1] = memo[key].origin

\* C1: only a leader's emitted text has the seed-growing outer function: the
\* declaration of <name>_raw, the while (1) loop and the head of <name>_raw are
\* printed for leaders only, so a left-recursive rule that is not the leader of
\* its SCC gets the plain body.
C1_OnlyLeaderHasLoop ==
    \A i \in DOMAIN out :
        out[i].op \in {"raw_declaration", "while (1) {", "raw_head"} => out[i].rule \in leader

\* C5: when the pass ends in one of the grammar errors (the AssertionError of an
\* unknown literal, the ValueError of an SCC without leader, the KeyError of a
\* missing start), nothing has been printed.
C5_NoOutputOnError ==
    error \in {"AssertionError", "ValueError", "KeyError"} => out = <<>>

\* C6: once collect_todo has returned, no helper rule is allocated any more, and
\* every rule whose head is printed has a forward declaration printed before the
\* first rule head.
C6_WorkListClosed ==
    /\ (gen_pc \in {"header", "defines", "declarations", "bodies", "finished"} \/ out # <<>>)
            => counter = closed
    /\ \A i \in DOMAIN out :
            out[i].op = "rule_head" =>
                \E j \in 1..(i - 1) :
                    /\ out[j].op = "forward_declaration"
                    /\ out[j].name = out[i].name
                    /\ \A k \in 1..j : out[k].op # "rule_head"

\* C6 witness: a pass has finished after printing the bodies of a _tmp_ helper
\* and of a _loop1_ helper.
C6_Witness ==
    /\ gen_pc = "finished"
    /\ \E i \in DOMAIN out : out[i].op = "rule_head" /\ out[i].name[1] = "_tmp_"
    /\ \E i \in DOMAIN out : out[i].op = "rule_head" /\ out[i].name[1] = "_loop1_"

\* C7: the second pass over a grammar prints what the first pass printed.
C7_SameOutput ==
    (pass = 2 /\ gen_pc \in {"finished", "error"}) => out = prev_out

\* C9: two assignments printed for the same alternative are to different names.
C9_NamesDistinct ==
    \A i, j \in DOMAIN out :
        (/\ i < j
         /\ out[i].op = "assign"
         /\ out[j].op = "assign"
         /\ out[i].rule = out[j].rule
         /\ out[i].alt = out[j].alt) => out[i].name # out[j].name

\* C13: every name an emitted alternative assigns to is among the variables
\* declared at the top of the body of its rule.
C13_AssignedAreDeclared ==
    \A i \in DOMAIN out :
        out[i].op = "assign" =>
            \E j \in DOMAIN out :
                /\ out[j].op = "declarations"
                /\ out[j].rule = out[i].rule
                /\ \E d \in out[j].decl : d[1] = out[i].name

\* The frames of the stack that are inside a seed-growing loop.
InSeedLoop ==
    {i \in DOMAIN stack : stack[i].pc \in {"o_update", "o_reset", "o_call", "o_back", "o_exit"}}

\* The end position of the k-th raw call of a loop entered at position start
\* counts as the best so far: the start for k = 0.
BestAfter(raws, start, k) == IF k = 0 THEN start ELSE raws[k].end

\* What a seed-growing loop that returns r and leaves the input at position at
\* must have done, r.raws being what its raw calls returned: there are no more
\* calls than tokens and one, every call but the last returned a result that
\* ends strictly past the best position before it, the last one did not, no
\* position is past the end of the input, and the loop leaves the input at the
\* best position with the result that reached it, NULL if none did.
SeedLoopExit(r, at) ==
    LET n == Len(r.raws)
    IN  /\ n >= 1
        /\ n <= Len(tokens) + 1
        /\ \A k \in 1..(n - 1) :
                /\ r.raws[k].node # NULL
                /\ r.raws[k].end > BestAfter(r.raws, r.start, k - 1)
                /\ r.raws[k].end <= Len(tokens)
        /\ r.raws[n].node = NULL \/ r.raws[n].end <= BestAfter(r.raws, r.start, n - 1)
        /\ at = BestAfter(r.raws, r.start, n - 1)
        /\ r.value = IF n = 1 THEN NULL ELSE r.raws[n - 1].node

\* C11: a seed-growing loop whose raw calls return is left after finitely many
\* iterations; the iterations it kept each ended strictly past the best position
\* so far, and at its exit the input is at the best position reached and the
\* value returned is the raw result that reached it, NULL if no raw call
\* advanced past the start.
C11_SeedLoopTerminates ==
    /\ [][Running("o_exit") => SeedLoopExit(last', pos')]_vars
    /\ (InSeedLoop # {}) ~> (InSeedLoop = {})

\* C11 witness: a seed-growing loop has returned after keeping two iterations.
C11_Witness == last.via = "exit" /\ Len(last.raws) >= 3

\* The frames of the stack that are functions of loop rules.
InLoopRule == {i \in DOMAIN stack : is_loop(stack[i].rule)}

\* C12: the function of a loop rule returns: its while loop comes to a failing
\* attempt of the alternative after finitely many iterations.
C12_LoopTerminates == (InLoopRule # {}) ~> (InLoopRule = {})

====
